---------------------------- MODULE Spec2Model ----------------------------
(***************************************************************************)
(* profiler.js: the timing recorder (profile / recordTiming) and the       *)
(* readers of its store (getResults, log, generateSequenceDiagram).        *)
(*                                                                         *)
(* Conventions of the model                                                *)
(*  - A function name is kept as the list of its parts around ".", i.e.    *)
(*    as the value of fullName.split("."): "A.m" is <<"A", "m">> and "X"   *)
(*    is <<"X">>; fullName.includes(".") is Len(name) > 1.                 *)
(*  - profiler.functionData is a JavaScript object: it is kept as the      *)
(*    sequence of its entries in insertion order, which is the order of    *)
(*    Object.entries.                                                      *)
(*  - Times (performance.now()) and durations are natural numbers. The      *)
(*    arithmetic of getResults is that of floating-point numbers: a sum    *)
(*    or a quotient keeps Precision significant bits (binary64 keeps 53),  *)
(*    rounded to nearest, ties to even.                                    *)
(*  - A text is the sequence of its lines (the text is the lines joined    *)
(*    by "\n"); every line is the exact string the code builds.            *)
(***************************************************************************)
EXTENDS Integers, Sequences, FiniteSets, TLC

VARIABLES
    functionData,   \* profiler.functionData, entries in insertion order
    componentData,  \* profiler.componentData, entries in insertion order
    enabled,        \* profiler.enabled: a boolean or a zero-argument predicate
    now,            \* the value performance.now() returns
    stack,          \* profiled calls whose synchronous part is running (LIFO)
    pending,        \* calls that returned a promise whose finally callback has not run
    nextId,         \* ghost: identity of the next use of profile
    owners,         \* ghost: which call pushed each timestamp / execution duration
    called,         \* ghost: how many times each wrapped function was called
    skipped,        \* ghost: why calls went unrecorded ("disabled", "zero", "threw")
    maxIter,        \* the maxIterations argument of generateSequenceDiagram
    lastCall,       \* outcome of the last reader call (getResults, log, generateSequenceDiagram)
    previousDiagram \* the text the reader call before it returned, if both are
                    \* generateSequenceDiagram calls (else empty)

vars == <<functionData, componentData, enabled, now, stack, pending, nextId,
          owners, called, skipped, maxIter, lastCall, previousDiagram>>

recorderVars == <<functionData, componentData, enabled, now, stack, pending,
                  nextId, owners, called, skipped>>

readerVars == <<maxIter, lastCall, previousDiagram>>

None == "none"

-----------------------------------------------------------------------------
(* Bounds of the model *)

MaxCalls == 2        \* uses of profile (wrapped calls, onRender callbacks) in one behaviour
MaxTime == 2         \* largest clock value
MaxEvents == 2       \* most calls behind a drawn store of the general family
MaxChain == 6        \* calls behind a drawn store of the chain family
Precision == 7       \* significant bits of a number (binary64 has 53)
MaxSamples == 3      \* longest drawn list of durations of one function
MaxFunctions == 3    \* most functions in a drawn store of several functions

(* Program constant: the default of maxIterations *)
DefaultMaxIterations == 100

-----------------------------------------------------------------------------
(* Generic helpers *)

Min(a, b) == IF a < b THEN a ELSE b

Last(s) == s[Len(s)]

RECURSIVE JoinWith(_, _)
\* Array.prototype.join(sep) on a list of strings
JoinWith(s, sep) ==
    IF s = <<>> THEN ""
    ELSE IF Len(s) = 1 THEN s[1]
    ELSE s[1] \o sep \o JoinWith(Tail(s), sep)

\* the full name as the code holds it: the parts joined by "."
FullName(name) == JoinWith(name, ".")

-----------------------------------------------------------------------------
(* The store *)

\* Object.keys(profiler.functionData)
Keys(fd) == { fd[k].name : k \in 1..Len(fd) }

\* position of the entry profiler.functionData[functionName]
IndexOf(fd, functionName) ==
    CHOOSE k \in 1..Len(fd) : fd[k].name = functionName

\* the object literal of recordTiming for a function seen for the first time
NewFunctionData(functionName, isPromise) ==
    [name |-> functionName,
     isPromise |-> isPromise,
     executionDuration |-> <<>>,
     invocationTimestamps |-> <<>>,
     threadBlockingDuration |-> <<>>]

\* the values profiler.enabled takes: a boolean, or a zero-argument predicate
\* (kept as the value it returns when called)
EnabledValues ==
    { [kind |-> "boolean", value |-> b] : b \in BOOLEAN } \cup
    { [kind |-> "function", returns |-> b] : b \in BOOLEAN }

\* a predicate that is tested without being called is truthy
isEnabledUncalled(en) == IF en.kind = "function" THEN TRUE ELSE en.value

\* typeof profiler.enabled === "function" ? profiler.enabled() : profiler.enabled
isEnabled(en) == IF en.kind = "function" THEN en.returns ELSE en.value

\* a test that lets every duration through
recordsAnyDuration(duration) == TRUE

\* if (duration !== 0)
recordsDuration(duration) == duration # 0

\* a test that pushes the start time at every recordTiming call
pushesStampAlways(stamps, startTime) == TRUE

\* invocationTimestamps.at(-1) !== startTime (at(-1) is undefined when the
\* list is empty)
pushesStamp(stamps, startTime) == stamps = <<>> \/ Last(stamps) # startTime

\* the recorder's view of the program: the store and the ghosts that follow it
RecorderState == [data |-> functionData, owners |-> owners, skipped |-> skipped]

\* recordTiming(functionName, startTime, type, isPromise), called by the call id
\* while performance.now() returns endTime and profiler.enabled is en
recordTiming(st, id, functionName, startTime, type, isPromise, endTime, en) ==
    IF ~isEnabled(en) THEN [st EXCEPT !.skipped = @ \cup {"disabled"}]
    ELSE
        LET duration == endTime - startTime IN
        IF ~recordsDuration(duration) THEN [st EXCEPT !.skipped = @ \cup {"zero"}]
        ELSE
            LET fd1 == IF functionName \in Keys(st.data) THEN st.data
                       ELSE Append(st.data, NewFunctionData(functionName, isPromise))
                k == IndexOf(fd1, functionName)
                stamps == fd1[k].invocationTimestamps
                pushStamp == pushesStamp(stamps, startTime)
                e1 == IF pushStamp
                      THEN [fd1[k] EXCEPT !.invocationTimestamps = Append(@, startTime)]
                      ELSE fd1[k]
                e2 == [e1 EXCEPT !.isPromise = isPromise]
                e3 == IF type = "execution"
                      THEN [e2 EXCEPT !.executionDuration = Append(@, duration)]
                      ELSE [e2 EXCEPT !.threadBlockingDuration = Append(@, duration)]
                o1 == IF pushStamp
                      THEN [st.owners EXCEPT ![functionName].stamp = Append(@, id)]
                      ELSE st.owners
                o2 == IF type = "execution"
                      THEN [o1 EXCEPT ![functionName].execution = Append(@, id)]
                      ELSE o1
            IN  [st EXCEPT !.data = [fd1 EXCEPT ![k] = e3], !.owners = o2]

-----------------------------------------------------------------------------
(* The wrappers: profilerFunction and profilerDecorator *)

\* the functions the program wraps: X with profile(fn), A.m with @profile
WrappedNames == { <<"X">>, <<"A", "m">> }

\* what a wrapped function does: it returns a plain value, a promise, or an
\* object that has a then method but no finally method; or it throws
ResultKinds == { "value", "promise", "thenable", "throws" }

\* the decorator names a method Class.propertyKey, the wrapper uses fn.name
isDecorated(functionName) == Len(functionName) > 1

\* typeof result.finally === "function"
hasFinally(kind) == kind = "promise"

\* the debug function of profilerFunction from the moment fn(...args) has
\* returned a result of the given kind: performance.now() is t1 in the first
\* recordTiming call and t2 in the second
profilerFunction(st, c, kind, t1, t2, en) ==
    LET s1 == recordTiming(st, c.id, c.name, c.startTime, "threadBlocking", FALSE, t1, en)
        isPromiseLike == kind \in {"promise", "thenable"}
    IN  IF ~isPromiseLike
        THEN [state |-> recordTiming(s1, c.id, c.name, c.startTime, "execution", FALSE, t2, en),
              outcome |-> "returned", deferred |-> FALSE]
        ELSE IF hasFinally(kind)
        THEN [state |-> s1, outcome |-> "returned", deferred |-> TRUE]
        ELSE [state |-> s1, outcome |-> "TypeError", deferred |-> FALSE]

\* the debug method of profilerDecorator from the moment originalMethod has
\* returned
profilerDecorator(st, c, kind, t1, t2, en) ==
    LET s1 == recordTiming(st, c.id, c.name, c.startTime, "threadBlocking", FALSE, t1, en)
        isPromise == hasFinally(kind)
    IN  IF ~isPromise
        THEN [state |-> recordTiming(s1, c.id, c.name, c.startTime, "execution", FALSE, t2, en),
              outcome |-> "returned", deferred |-> FALSE]
        ELSE [state |-> s1, outcome |-> "returned", deferred |-> TRUE]

\* the callback given to result.finally
finallyCallback(st, c, t, en) ==
    recordTiming(st, c.id, c.name, c.startTime, "execution", TRUE, t, en)

\* a callback that keeps only the last duration of a component
profilerComponentLast(cd, id, actualDuration, en) ==
    IF ~isEnabled(en) THEN cd
    ELSE
        LET cd1 == IF \E k \in 1..Len(cd) : cd[k].id = id THEN cd
                   ELSE Append(cd, [id |-> id, durations |-> <<>>])
            k == CHOOSE j \in 1..Len(cd1) : cd1[j].id = id
        IN  [cd1 EXCEPT ![k].durations = <<actualDuration>>]

\* profilerComponent(id, phase, actualDuration, baseDuration, startTime, commitTime)
profilerComponent(cd, id, actualDuration, en) ==
    IF ~isEnabled(en) THEN cd
    ELSE
        LET cd1 == IF \E k \in 1..Len(cd) : cd[k].id = id THEN cd
                   ELSE Append(cd, [id |-> id, durations |-> <<>>])
            k == CHOOSE j \in 1..Len(cd1) : cd1[j].id = id
        IN  [cd1 EXCEPT ![k].durations = Append(@, actualDuration)]

ComponentIds == { "Comp", "Other" }

Phases == { "mount", "update", "nested-update" }

ActualDurations == { 0, 5 }

-----------------------------------------------------------------------------
(* The recorder as a state machine *)

NoCall == [op |-> None]

Init ==
    /\ functionData = <<>>
    /\ componentData = <<>>
    /\ enabled \in { [kind |-> "boolean", value |-> b] : b \in BOOLEAN }
    /\ now = 0
    /\ stack = <<>>
    /\ pending = {}
    /\ nextId = 1
    /\ owners = [n \in WrappedNames |-> [stamp |-> <<>>, execution |-> <<>>]]
    /\ called = [n \in WrappedNames |-> 0]
    /\ skipped = {}
    /\ maxIter = DefaultMaxIterations
    /\ lastCall = NoCall
    /\ previousDiagram = <<>>

\* performance.now() advances
Tick ==
    /\ now < MaxTime
    /\ now' = now + 1
    /\ UNCHANGED <<functionData, componentData, enabled, stack, pending, nextId,
                   owners, called, skipped, readerVars>>

\* a wrapped function is called: debug reads startTime and calls fn
Begin(functionName) ==
    /\ nextId <= MaxCalls
    /\ stack' = Append(stack, [id |-> nextId, name |-> functionName,
                               startTime |-> now])
    /\ nextId' = nextId + 1
    /\ called' = [called EXCEPT ![functionName] = @ + 1]
    /\ UNCHANGED <<functionData, componentData, enabled, now, pending, owners,
                   skipped, readerVars>>

\* the innermost running call returns a result of the given kind (or throws)
\* and debug runs to its end; the clock advances by adv between the two
\* recordTiming calls
Return(kind, adv) ==
    /\ stack # <<>>
    /\ now + adv <= MaxTime
    /\ LET c == Last(stack)
           r == IF kind = "throws"
                THEN [state |-> [RecorderState EXCEPT !.skipped = @ \cup {"threw"}],
                      outcome |-> "threw", deferred |-> FALSE]
                ELSE IF isDecorated(c.name)
                THEN profilerDecorator(RecorderState, c, kind, now, now + adv, enabled)
                ELSE profilerFunction(RecorderState, c, kind, now, now + adv, enabled)
       IN  /\ functionData' = r.state.data
           /\ owners' = r.state.owners
           /\ skipped' = r.state.skipped
           /\ pending' = IF r.deferred
                         THEN pending \cup {[id |-> c.id, name |-> c.name,
                                             startTime |-> c.startTime]}
                         ELSE pending
    /\ stack' = SubSeq(stack, 1, Len(stack) - 1)
    /\ now' = now + adv
    /\ UNCHANGED <<componentData, enabled, nextId, called, readerVars>>

\* a returned promise settles and its finally callback runs (as a microtask:
\* no profiled call is running)
Settle(c) ==
    /\ stack = <<>>
    /\ c \in pending
    /\ LET s1 == finallyCallback(RecorderState, c, now, enabled)
       IN  /\ functionData' = s1.data
           /\ owners' = s1.owners
           /\ skipped' = s1.skipped
    /\ pending' = pending \ {c}
    /\ UNCHANGED <<componentData, enabled, now, stack, nextId, called, readerVars>>

\* React calls profile as the onRender callback of a Profiler
Render(id, phase, actualDuration) ==
    /\ nextId <= MaxCalls
    /\ phase \in Phases
    /\ componentData' = profilerComponent(componentData, id, actualDuration, enabled)
    /\ nextId' = nextId + 1
    /\ UNCHANGED <<functionData, enabled, now, stack, pending, owners, called,
                   skipped, readerVars>>

\* the host assigns profiler.enabled
SetEnabled(v) ==
    /\ v # enabled
    /\ enabled' = v
    /\ UNCHANGED <<functionData, componentData, now, stack, pending, nextId,
                   owners, called, skipped, readerVars>>

\* the recorder when every profiled call is synchronous, is measured with an
\* execution duration that is not 0 and starts at a time at which no other
\* call of the same function has started

\* a call of functionName starts at a time at which none of its running or
\* recorded calls has started
SyncBegin(functionName) ==
    /\ \A k \in 1..Len(stack) :
         stack[k].name = functionName => stack[k].startTime # now
    /\ \A k \in 1..Len(functionData) :
         functionData[k].name = functionName =>
             \A i \in 1..Len(functionData[k].invocationTimestamps) :
                 functionData[k].invocationTimestamps[i] # now
    /\ Begin(functionName)

\* the innermost running call returns a plain value, later than it started, or
\* throws
SyncReturn(kind, adv) ==
    /\ kind \in {"value", "throws"}
    /\ stack # <<>>
    /\ kind = "value" => now + adv # Last(stack).startTime
    /\ Return(kind, adv)

NextSync ==
    \/ Tick
    \/ \E n \in WrappedNames : SyncBegin(n)
    \/ \E k \in {"value", "throws"}, adv \in {0, 1} : SyncReturn(k, adv)
    \/ \E v \in EnabledValues : SetEnabled(v)

SpecSync == Init /\ [][NextSync]_vars

Next ==
    \/ Tick
    \/ \E n \in WrappedNames : Begin(n)
    \/ \E k \in ResultKinds, adv \in {0, 1} : Return(k, adv)
    \/ \E c \in pending : Settle(c)
    \/ \E id \in ComponentIds, ph \in Phases, d \in ActualDurations : Render(id, ph, d)
    \/ \E v \in EnabledValues : SetEnabled(v)

Spec == Init /\ [][Next]_vars

-----------------------------------------------------------------------------
(* generateSequenceDiagram *)

\* getParticipantName(fullName): parts[0] || fullName
getParticipantName(name) ==
    IF Len(name) > 1 /\ name[1] # "" THEN name[1] ELSE FullName(name)

\* a label that keeps the participant prefix
getMethodNameFull(name) == FullName(name)

\* getMethodName(fullName): parts[1] || fullName
getMethodName(name) ==
    IF Len(name) > 1 /\ name[2] # "" THEN name[2] ELSE FullName(name)

\* a window that is open at its end
isWithinDurationOpen(parentCall, childCall) ==
    /\ childCall.timestamp >= parentCall.timestamp
    /\ childCall.timestamp < parentCall.timestamp + parentCall.duration

\* isWithinDuration(parentCall, childCall)
isWithinDuration(parentCall, childCall) ==
    /\ childCall.timestamp >= parentCall.timestamp
    /\ childCall.timestamp <= parentCall.timestamp + parentCall.duration

RECURSIVE entryCallsUnitDuration(_, _)
\* an extraction that gives a call without a recorded duration the duration 1
entryCallsUnitDuration(e, i) ==
    IF i > Len(e.invocationTimestamps) THEN <<>>
    ELSE <<[timestamp |-> e.invocationTimestamps[i],
            functionName |-> e.name,
            duration |-> IF i <= Len(e.executionDuration)
                         THEN e.executionDuration[i] ELSE 1,
            isPromise |-> e.isPromise]>>
         \o entryCallsUnitDuration(e, i + 1)

RECURSIVE entryCalls(_, _)
\* the inner loop of the extraction, from index i (1-based here) of one entry
entryCalls(e, i) ==
    IF i > Len(e.invocationTimestamps) THEN <<>>
    ELSE <<[timestamp |-> e.invocationTimestamps[i],
            functionName |-> e.name,
            \* data.executionDuration[i] || 0
            duration |-> IF i <= Len(e.executionDuration)
                         THEN e.executionDuration[i] ELSE 0,
            isPromise |-> e.isPromise]>>
         \o entryCalls(e, i + 1)

RECURSIVE extractCalls(_)
\* the outer loop over Object.entries(profiler.functionData)
extractCalls(fd) ==
    IF fd = <<>> THEN <<>> ELSE entryCalls(fd[1], 1) \o extractCalls(Tail(fd))

\* an insertion that puts c before the calls of its own timestamp
insertCallBeforeEqual(sorted, c) ==
    LET k == Cardinality({j \in 1..Len(sorted) : sorted[j].timestamp < c.timestamp})
    IN  SubSeq(sorted, 1, k) \o <<c>> \o SubSeq(sorted, k + 1, Len(sorted))

\* one insertion of the stable sort: c goes after every call that is not later
insertCall(sorted, c) ==
    LET k == Cardinality({j \in 1..Len(sorted) : sorted[j].timestamp <= c.timestamp})
    IN  SubSeq(sorted, 1, k) \o <<c>> \o SubSeq(sorted, k + 1, Len(sorted))

RECURSIVE sortInto(_, _)
sortInto(sorted, rest) ==
    IF rest = <<>> THEN sorted ELSE sortInto(insertCall(sorted, rest[1]), Tail(rest))

\* functionCalls.sort((a, b) => a.timestamp - b.timestamp), a stable sort
sortByTimestamp(calls) == sortInto(<<>>, calls)

RECURSIVE participantsOfLastFirst(_, _)
\* a declaration order in which the participant seen last comes first
participantsOfLastFirst(calls, seen) ==
    IF calls = <<>> THEN seen
    ELSE LET p == getParticipantName(calls[1].functionName)
         IN  participantsOfLastFirst(Tail(calls),
                            IF \E k \in 1..Len(seen) : seen[k] = p THEN seen
                            ELSE <<p>> \o seen)

RECURSIVE participantsOf(_, _)
\* the Set of participant names, in insertion order
participantsOf(calls, seen) ==
    IF calls = <<>> THEN seen
    ELSE LET p == getParticipantName(calls[1].functionName)
         IN  participantsOf(Tail(calls),
                            IF \E k \in 1..Len(seen) : seen[k] = p THEN seen
                            ELSE Append(seen, p))

\* the code fence of Markdown, three grave accents in the source; a string of
\* this language cannot hold that character, so "~~~" stands for it
Fence == "~~~"

\* the fixed text returned when there is no call
NoDataDiagram ==
    <<Fence \o "mermaid", "sequenceDiagram",
      "  Note over No Data: No function calls recorded", Fence>>

\* a loop that runs over every call whatever maxIterations is
loopRunsToEnd(i, iterations, length, maxIterations) == i < length

\* a loop over the adjacent pairs only: the last call is never the current one
loopOverPairs(i, iterations, length, maxIterations) ==
    /\ i < Min(length - 1, maxIterations)
    /\ ~(iterations >= maxIterations)

\* the loop condition and the "reached the limit" break (i counts from 0)
loopContinues(i, iterations, length, maxIterations) ==
    /\ i < Min(length, maxIterations)
    /\ ~(iterations >= maxIterations)

\* a nesting test that also holds when next starts as current ends
callsNextClosed(currentCall, nextCall) ==
    nextCall.timestamp <= currentCall.timestamp + currentCall.duration

\* the nesting test: next starts within current's execution time
callsNext(currentCall, nextCall) ==
    nextCall.timestamp < currentCall.timestamp + currentCall.duration

\* a Return edge drawn with the arrow head of a Call edge
returnLineArrowHead(source, target) ==
    "  " \o source \o "-->>" \o target \o ": return"

\* the line of a Return edge
returnLine(source, target) ==
    "  " \o source \o "-->" \o target \o ": return"

\* the state of the loop before its first iteration
LoopStart(lines) ==
    [diagram |-> lines, sequenceHistory |-> <<>>, currentSequence |-> <<>>,
     iterations |-> 0, truncated |-> FALSE, steps |-> <<>>]

\* one iteration of the loop, for i (counted from 0) and loop state w
loopBody(w, calls, i) ==
    LET currentCall == calls[i + 1]
        hasNext == i + 1 < Len(calls)
        nextCall == calls[i + 2]
        prevCall == calls[i]
        source == getParticipantName(currentCall.functionName)
        pushed == Append(w.currentSequence, FullName(currentCall.functionName))
        isCall == hasNext /\ callsNext(currentCall, nextCall)
        isReturn == /\ ~isCall
                    /\ hasNext
                    /\ i > 0
                    /\ isWithinDuration(prevCall, currentCall)
        target == IF isCall THEN getParticipantName(nextCall.functionName)
                  ELSE IF isReturn THEN getParticipantName(prevCall.functionName)
                  ELSE None
        arrowType == IF currentCall.isPromise THEN "->>" ELSE "->>"
        edgeLine == IF isCall
                    THEN <<"  " \o source \o arrowType \o target \o ": "
                           \o getMethodName(nextCall.functionName)>>
                    ELSE IF isReturn
                    THEN <<returnLine(source, target)>>
                    ELSE <<>>
        sequenceStr == JoinWith(pushed, "-")
        circular == \E k \in 1..Len(w.sequenceHistory) : w.sequenceHistory[k] = sequenceStr
        noteLine == IF circular
                    THEN <<"  Note over " \o source
                           \o ": Circular pattern detected - diagram truncated">>
                    ELSE <<>>
        record == ~circular /\ Len(pushed) > 2
        reset == record /\ ~(hasNext /\ isWithinDuration(currentCall, nextCall))
        step == [i |-> i,
                 edge |-> IF isCall THEN "call" ELSE IF isReturn THEN "return" ELSE None,
                 source |-> source,
                 target |-> target,
                 label |-> IF isCall THEN getMethodName(nextCall.functionName)
                           ELSE IF isReturn THEN "return" ELSE None,
                 lines |-> edgeLine \o noteLine,
                 note |-> circular,
                 historyBefore |-> w.sequenceHistory,
                 traceBefore |-> w.currentSequence,
                 trace |-> pushed,
                 traceAfter |-> IF reset THEN <<>> ELSE pushed]
    IN  [diagram |-> w.diagram \o edgeLine \o noteLine,
         sequenceHistory |-> IF record THEN Append(w.sequenceHistory, sequenceStr)
                             ELSE w.sequenceHistory,
         currentSequence |-> IF reset THEN <<>> ELSE pushed,
         iterations |-> w.iterations + 1,
         truncated |-> circular,
         steps |-> Append(w.steps, step)]

RECURSIVE runLoopPastNote(_, _, _, _)
\* a for loop without the break after the note
runLoopPastNote(w, calls, i, maxIterations) ==
    IF ~loopContinues(i, w.iterations, Len(calls), maxIterations)
    THEN w
    ELSE runLoopPastNote(loopBody(w, calls, i), calls, i + 1, maxIterations)

RECURSIVE runLoop(_, _, _, _)
\* the for loop from i on: it ends by its condition or by the break after a note
runLoop(w, calls, i, maxIterations) ==
    IF w.truncated \/ ~loopContinues(i, w.iterations, Len(calls), maxIterations)
    THEN w
    ELSE runLoop(loopBody(w, calls, i), calls, i + 1, maxIterations)

\* the diagram of a list of calls that is not empty: the header, the
\* participants, the edges of the loop and the closing fence
diagramOf(functionCalls, maxIterations) ==
    LET participants == participantsOf(functionCalls, <<>>)
        header == <<Fence \o "mermaid", "sequenceDiagram">>
                  \o [k \in 1..Len(participants) |-> "  participant " \o participants[k]]
        w == runLoop(LoopStart(header), functionCalls, 0, maxIterations)
    IN  [text |-> Append(w.diagram, Fence), empty |-> FALSE,
         participants |-> participants, steps |-> w.steps,
         iterations |-> w.iterations, calls |-> functionCalls]

\* a builder that has no special case for an empty list of calls
buildDiagramAlways(functionCalls, maxIterations) ==
    diagramOf(functionCalls, maxIterations)

\* the diagram built from the sorted calls: the text (as lines) and what the
\* loop did
buildDiagram(functionCalls, maxIterations) ==
    IF Len(functionCalls) = 0
    THEN [text |-> NoDataDiagram, empty |-> TRUE, participants |-> <<>>,
          steps |-> <<>>, iterations |-> 0, calls |-> functionCalls]
    ELSE diagramOf(functionCalls, maxIterations)

\* what the export sink (save, imported from "save-file") does when called:
\* it writes, it throws, or it returns a promise that rejects
SinkOutcomes == { "ok", "throws", "rejects" }

\* a return statement that hands back the markdown content that was saved
returnedTextSaved(diagram, saveToFile) ==
    IF saveToFile THEN <<"# Function Execution Sequence Diagram", "">> \o diagram \o <<"">>
    ELSE diagram

\* return diagram
returnedText(diagram, saveToFile) == diagram

\* generateSequenceDiagram(maxIterations, saveToFile, fileName) on the store fd
generateSequenceDiagram(fd, maxIterations, saveToFile, sink) ==
    LET functionCalls == sortByTimestamp(extractCalls(fd))
        d == buildDiagram(functionCalls, maxIterations)
        \* the empty case returns before the save block
        saves == saveToFile /\ ~d.empty
        mdContent == <<"# Function Execution Sequence Diagram", "">> \o d.text \o <<"">>
    IN  [op |-> "generateSequenceDiagram",
         saveToFile |-> saveToFile,
         sinkCalled |-> saves,
         sinkFailed |-> saves /\ sink # "ok",
         \* save(...) stands in no try block and its promise gets no handler
         outcome |-> IF saves /\ sink = "throws" THEN "threw" ELSE "returned",
         unhandledRejection |-> saves /\ sink = "rejects",
         result |-> IF saves /\ sink = "throws" THEN <<>>
                    ELSE returnedText(d.text, saveToFile),
         saved |-> IF saves /\ sink = "ok" THEN mdContent ELSE <<>>,
         run |-> d]

-----------------------------------------------------------------------------
(* getResults and log *)

(* Numbers.  A JavaScript number is a binary floating-point number: the
   result of + and / is the exact result rounded to the nearest number that
   has Precision significant bits, ties going to the even one (binary64 keeps
   53 bits).  A value is kept as num / 2^shift, in lowest terms; every
   natural number below 2^Precision is a value, so the sums and differences
   of the small times of this model are exact, as they are in binary64. *)

\* a number, and the values JavaScript gives where there is none
Number(n) == [is |-> "number", num |-> n, shift |-> 0]

NotANumber(what) == [is |-> what, num |-> 0, shift |-> 0]

RECURSIVE lowestTerms(_, _)
\* num / 2^shift in lowest terms
lowestTerms(num, shift) ==
    IF shift > 0 /\ num % 2 = 0 THEN lowestTerms(num \div 2, shift - 1)
    ELSE [is |-> "number", num |-> num, shift |-> shift]

\* the exact ratio a / b (a >= 0, b > 0) rounded to Precision significant bits,
\* ties to even
roundRatio(a, b) ==
    IF a = 0 THEN Number(0)
    \* a quotient that is a whole number of at most Precision bits is exact
    ELSE IF a % b = 0 /\ a \div b < 2^Precision THEN Number(a \div b)
    ELSE
        LET \* 2^e <= a / b < 2^(e + 1)
            atLeast(e) == IF e >= 0 THEN b * 2^e <= a ELSE b <= a * 2^(0 - e)
            e == CHOOSE x \in (0 - 12)..20 : atLeast(x) /\ ~atLeast(x + 1)
            \* the unit in the last place is 2^k
            k == e - Precision + 1
            top == IF k >= 0 THEN a ELSE a * 2^(0 - k)
            bottom == IF k >= 0 THEN b * 2^k ELSE b
            q == top \div bottom
            r == top % bottom
            m == IF 2 * r > bottom \/ (2 * r = bottom /\ q % 2 = 1) THEN q + 1 ELSE q
        IN  IF k >= 0 THEN Number(m * 2^k) ELSE lowestTerms(m, 0 - k)

\* a + b for two natural numbers: exact when the sum has no more than
\* Precision bits
plus(a, b) ==
    LET sum == a + b
    IN  IF sum < 2^Precision THEN sum ELSE roundRatio(sum, 1).num

RECURSIVE reduceSum(_, _)
\* d.reduce((a, b) => a + b, acc): the samples are added to the accumulator
\* from left to right; the list is walked by halves, which keeps that order,
\* and the sum of the left half is a number before the right half is added
reduceSum(acc, d) ==
    IF d = <<>> THEN acc
    ELSE IF Len(d) = 1 THEN plus(acc, d[1])
    ELSE LET half == Len(d) \div 2
             left == reduceSum(acc, SubSeq(d, 1, half))
         IN  IF left \in Nat THEN reduceSum(left, SubSeq(d, half + 1, Len(d)))
             ELSE left

\* x < y for two numbers
lessThan(x, y) ==
    /\ x.is = "number"
    /\ y.is = "number"
    /\ x.num * 2^(y.shift) < y.num * 2^(x.shift)

RECURSIVE MaxOf(_)
\* Math.max(...s) of a list that is not empty
MaxOf(s) ==
    IF Len(s) = 1 THEN s[1]
    ELSE LET half == Len(s) \div 2
             l == MaxOf(SubSeq(s, 1, half))
             r == MaxOf(SubSeq(s, half + 1, Len(s)))
         IN  IF l > r THEN l ELSE r

RECURSIVE MinOf(_)
\* Math.min(...s) of a list that is not empty
MinOf(s) ==
    IF Len(s) = 1 THEN s[1]
    ELSE LET half == Len(s) \div 2
             l == MinOf(SubSeq(s, 1, half))
             r == MinOf(SubSeq(s, half + 1, Len(s)))
         IN  IF l < r THEN l ELSE r

\* an index that is rounded up instead of down
p99IndexCeiling(n) == (n * 99 + 99) \div 100

\* Math.floor(n * 0.99): n * 0.99 is the product of n and the number nearest
\* to 99/100, which rounds to 99 n / 100 whenever that is a whole number, so
\* the floor is that of the exact quotient
p99Index(n) == (n * 99) \div 100

\* the five statistics of one duration list
durationStats(d) ==
    [\* sum / length; 0 / 0 is NaN
     avg |-> IF d = <<>> THEN NotANumber("NaN")
             ELSE roundRatio(reduceSum(0, d), Len(d)),
     \* Math.min() is Infinity and Math.max() is -Infinity
     min |-> IF d = <<>> THEN NotANumber("Infinity") ELSE Number(MinOf(d)),
     max |-> IF d = <<>> THEN NotANumber("-Infinity") ELSE Number(MaxOf(d)),
     \* an index past the end reads undefined
     p0 |-> IF d = <<>> THEN NotANumber("undefined") ELSE Number(d[1]),
     p99 |-> IF p99Index(Len(d)) < Len(d) THEN Number(d[p99Index(Len(d)) + 1])
             ELSE NotANumber("undefined")]

\* avg is NaN
isNaN(avg) == avg.is = "NaN"

\* the record getResults makes of one entry of functionData
resultOf(e) ==
    [className |-> IF Len(e.name) > 1 THEN e.name[1] ELSE "",
     functionName |-> IF Len(e.name) > 1 THEN e.name[2] ELSE FullName(e.name),
     isPromise |-> e.isPromise,
     threadBlockingDuration |-> durationStats(e.threadBlockingDuration),
     executionDuration |-> durationStats(e.executionDuration),
     invocationTimestamps |-> e.invocationTimestamps]

RECURSIVE mapResults(_)
\* Object.entries(profiler.functionData).map(...)
mapResults(fd) ==
    IF fd = <<>> THEN <<>> ELSE <<resultOf(fd[1])>> \o mapResults(Tail(fd))

RECURSIVE samplesSortedInPlace(_)
\* a sample list that the statistics have sorted in place, ascending
samplesSortedInPlace(d) ==
    IF d = <<>> THEN <<>>
    ELSE LET m == CHOOSE k \in 1..Len(d) : \A j \in 1..Len(d) : d[k] <= d[j]
         IN  <<d[m]>> \o samplesSortedInPlace(SubSeq(d, 1, m - 1) \o SubSeq(d, m + 1, Len(d)))

\* a sample list of the store after the statistics have been taken from it:
\* reduce, the spread into Math.min and Math.max and the reads by index write
\* nothing to the array
samplesAfterStats(d) == d

\* an entry of the store after the callback of map has run on it
entryAfterResults(e) ==
    [e EXCEPT !.threadBlockingDuration = samplesAfterStats(@),
              !.executionDuration = samplesAfterStats(@)]

RECURSIVE storeAfterResults(_)
\* profiler.functionData after getResults: map and sort build a new array
storeAfterResults(fd) ==
    IF fd = <<>> THEN <<>>
    ELSE <<entryAfterResults(fd[1])>> \o storeAfterResults(Tail(fd))

\* the sign of the comparator (a, b) => b.executionDuration.avg -
\* a.executionDuration.avg; a NaN result is taken as 0 by sort
compareAvg(a, b) ==
    LET x == a.executionDuration.avg
        y == b.executionDuration.avg
    IN  IF isNaN(x) \/ isNaN(y) THEN 0
        ELSE IF lessThan(x, y) THEN 1 ELSE IF lessThan(y, x) THEN -1 ELSE 0

\* the comparator is consistent on the records: "compares as equal" is
\* transitive (the other conditions of a consistent comparator hold for every
\* list of records)
consistentComparator(records) ==
    \A i, j, k \in 1..Len(records) :
        (compareAvg(records[i], records[j]) = 0 /\ compareAvg(records[j], records[k]) = 0)
            => compareAvg(records[i], records[k]) = 0

RECURSIVE keepPrefix(_, _)
\* how many leading records of sorted stay before r
keepPrefix(sorted, r) ==
    IF sorted = <<>> \/ compareAvg(sorted[1], r) > 0 THEN 0
    ELSE 1 + keepPrefix(Tail(sorted), r)

RECURSIVE sortResultsInto(_, _)
\* the stable sort, by insertion
sortResultsInto(sorted, rest) ==
    IF rest = <<>> THEN sorted
    ELSE LET k == keepPrefix(sorted, rest[1])
         IN  sortResultsInto(SubSeq(sorted, 1, k) \o <<rest[1]>>
                               \o SubSeq(sorted, k + 1, Len(sorted)),
                             Tail(rest))

\* the orders of the records
permutationsOf(records) ==
    { [k \in 1..Len(records) |-> records[f[k]]] :
        f \in { g \in [1..Len(records) -> 1..Len(records)] :
                  \A i, j \in 1..Len(records) : i # j => g[i] # g[j] } }

\* the arrays that .sort(comparator) can leave: the stable sort when the
\* comparator is consistent; when it is not, the order is left to the engine
sortOutcomes(records) ==
    IF consistentComparator(records) THEN { sortResultsInto(<<>>, records) }
    ELSE permutationsOf(records)

\* Object.entries(profiler.functionData).map(...).sort(...): the arrays
\* getResults can hold in functionDataArray
functionDataArray(fd) == sortOutcomes(mapResults(fd))

csvHeaders ==
    <<"Class Name", "Function Name", "Is Promise",
      "Thread Blocking Duration (avg) (ms)", "Thread Blocking Duration (min) (ms)",
      "Thread Blocking Duration (max) (ms)", "Thread Blocking Duration (p0) (ms)",
      "Thread Blocking Duration (p99) (ms)", "Execution Duration (avg) (ms)",
      "Execution Duration (min) (ms)", "Execution Duration (max) (ms)",
      "Execution Duration (p0) (ms)", "Execution Duration (p99) (ms)",
      "Invocation Count">>

\* one row of csvData (the cells, before they are joined by ",")
csvRow(item) ==
    <<item.className, item.functionName, item.isPromise,
      item.threadBlockingDuration.avg, item.threadBlockingDuration.min,
      item.threadBlockingDuration.max, item.threadBlockingDuration.p0,
      item.threadBlockingDuration.p99, item.executionDuration.avg,
      item.executionDuration.min, item.executionDuration.max,
      item.executionDuration.p0, item.executionDuration.p99,
      Len(item.invocationTimestamps)>>

\* getResults(saveToFile, fileName), from the point where functionDataArray
\* holds array, one of the arrays the sort can leave
getResults(array, saveToFile, sink) ==
    LET csvContent == <<csvHeaders>> \o [k \in 1..Len(array) |-> csvRow(array[k])]
    IN  [op |-> "getResults",
         saveToFile |-> saveToFile,
         sinkCalled |-> saveToFile,
         sinkFailed |-> saveToFile /\ sink # "ok",
         \* save(...) stands in no try block and its promise gets no handler
         outcome |-> IF saveToFile /\ sink = "throws" THEN "threw" ELSE "returned",
         unhandledRejection |-> saveToFile /\ sink = "rejects",
         result |-> IF saveToFile /\ sink = "throws" THEN <<>> ELSE array,
         saved |-> IF saveToFile /\ sink = "ok" THEN csvContent ELSE <<>>]

RECURSIVE tableOf(_, _)
\* the reduce of log: acc[index] = row, a later row replacing an earlier one
\* under the same index
tableOf(acc, results) ==
    IF results = <<>> THEN acc
    ELSE LET result == results[1]
             index == IF result.className # ""
                      THEN result.className \o "." \o result.functionName
                      ELSE result.functionName
             row == [index |-> index,
                     isPromise |-> result.isPromise,
                     threadBlocking |-> result.threadBlockingDuration.avg,
                     execution |-> result.executionDuration.avg,
                     invocationCount |-> Len(result.invocationTimestamps)]
             acc1 == IF \E k \in 1..Len(acc) : acc[k].index = index
                     THEN [k \in 1..Len(acc) |->
                             IF acc[k].index = index THEN row ELSE acc[k]]
                     ELSE Append(acc, row)
         IN  tableOf(acc1, Tail(results))

\* log(): the table given to console.table, array being what its
\* profiler.getResults() call returns
log(array) ==
    [op |-> "log", outcome |-> "returned",
     result |-> tableOf(<<>>, getResults(array, FALSE, "ok").result)]

-----------------------------------------------------------------------------
(* The readers on a given store *)

\* the names in the stores that are drawn
StoreNames == { <<"X">>, <<"A", "m">>, <<"A", "n">> }

ChainNames == { <<"X">>, <<"Y">> }

\* the timestamps of the general family
Stamps == { 0, 1 }

\* the durations of the general family; 0 is a call whose execution duration
\* is not recorded (its promise has not settled)
StoreDurations == { 0, 1 }

\* the chain family: calls that start 2 apart, each running long enough (20)
\* for the next to start within it, but for at most one of them, which ends
\* before the next starts (1) or as it starts (2)
ChainShort == { 1, 2 }

\* the store after one more call: what the recordTiming calls of the call
\* leave (the "threadBlocking" one, and the "execution" one if the call has
\* completed)
storeWith(fd, c) ==
    LET fd1 == IF c.name \in Keys(fd) THEN fd
               ELSE Append(fd, NewFunctionData(c.name, FALSE))
        k == IndexOf(fd1, c.name)
        stamps == fd1[k].invocationTimestamps
        \* invocationTimestamps.at(-1) !== startTime
        e0 == IF stamps = <<>> \/ Last(stamps) # c.stamp
              THEN [fd1[k] EXCEPT !.invocationTimestamps = Append(@, c.stamp)]
              ELSE fd1[k]
        e1 == [e0 EXCEPT !.threadBlockingDuration = Append(@, 1)]
        e2 == IF c.duration = 0 THEN e1
              ELSE [e1 EXCEPT !.executionDuration = Append(@, c.duration)]
    IN  [fd1 EXCEPT ![k] = e2]

RECURSIVE storeOf(_, _)
storeOf(fd, cs) ==
    IF cs = <<>> THEN fd ELSE storeOf(storeWith(fd, cs[1]), Tail(cs))

GeneralCalls == [name : StoreNames, stamp : Stamps, duration : StoreDurations]

GeneralStores ==
    { storeOf(<<>>, cs) : cs \in UNION { [1..n -> GeneralCalls] : n \in 0..MaxEvents } }

\* the durations of the calls of a chain, the last one left out
ChainDurations ==
    { [k \in 1..(MaxChain - 1) |-> 20] } \cup
    { [k \in 1..(MaxChain - 1) |-> IF k = j THEN d ELSE 20]
      : j \in 1..(MaxChain - 1), d \in ChainShort }

\* the names of the calls of a chain; the first call is to X (a chain that
\* starts with Y is one of these with the two names exchanged)
ChainNamings == { ns \in [1..MaxChain -> ChainNames] : ns[1] = <<"X">> }

\* MaxChain calls that start 2 apart, in time order
ChainStores ==
    { storeOf(<<>>, [k \in 1..MaxChain |->
                       [name |-> ns[k], stamp |-> 2 * (k - 1),
                        duration |-> IF k = MaxChain THEN 1 ELSE ds[k]]])
      : ns \in ChainNamings, ds \in ChainDurations }

\* four calls of four functions: B and C start while A runs, C while B runs,
\* and D after C has ended
ExampleCalls ==
    <<[name |-> <<"A">>, stamp |-> 0, duration |-> 100],
      [name |-> <<"B">>, stamp |-> 10, duration |-> 50],
      [name |-> <<"C">>, stamp |-> 30, duration |-> 20],
      [name |-> <<"D">>, stamp |-> 60, duration |-> 15]>>

ExampleStore == storeOf(<<>>, ExampleCalls)

\* three calls that start 2 apart, the first one ending before the second
\* starts (1), as it starts (2) or after it has started (3)
TouchingDurations == { 1, 2, 3 }

TouchingStores ==
    { storeOf(<<>>, <<[name |-> <<"X">>, stamp |-> 0, duration |-> d],
                      [name |-> <<"Y">>, stamp |-> 2, duration |-> 1],
                      [name |-> <<"X">>, stamp |-> 4, duration |-> 1]>>)
      : d \in TouchingDurations }

\* three nested calls of X and then, after the last of them has ended, a call
\* of a function whose own name is X-X-X (a method declared under a quoted
\* name)
JoinedNameCalls ==
    <<[name |-> <<"X">>, stamp |-> 0, duration |-> 20],
      [name |-> <<"X">>, stamp |-> 2, duration |-> 20],
      [name |-> <<"X">>, stamp |-> 4, duration |-> 1],
      [name |-> <<"X-X-X">>, stamp |-> 6, duration |-> 1]>>

JoinedNameStore == storeOf(<<>>, JoinedNameCalls)

\* X calls Y calls X, twice over, and then Y calls X: the second X-Y-X
\* repeats the first with two events still to come
RepeatCalls ==
    <<[name |-> <<"X">>, stamp |-> 0, duration |-> 20],
      [name |-> <<"Y">>, stamp |-> 2, duration |-> 20],
      [name |-> <<"X">>, stamp |-> 4, duration |-> 1],
      [name |-> <<"X">>, stamp |-> 6, duration |-> 20],
      [name |-> <<"Y">>, stamp |-> 8, duration |-> 20],
      [name |-> <<"X">>, stamp |-> 10, duration |-> 1],
      [name |-> <<"Y">>, stamp |-> 12, duration |-> 20],
      [name |-> <<"X">>, stamp |-> 14, duration |-> 1]>>

RepeatStore == storeOf(<<>>, RepeatCalls)

\* profiler.componentData after a component has rendered twice and another
\* one once
RenderedComponents ==
    profilerComponent(
        profilerComponent(
            profilerComponent(<<>>, "Comp", 5, [kind |-> "boolean", value |-> TRUE]),
            "Other", 5, [kind |-> "boolean", value |-> TRUE]),
        "Comp", 0, [kind |-> "boolean", value |-> TRUE])

MaxIterChoices == { 0, 2, DefaultMaxIterations }

InitReader ==
    /\ functionData \in GeneralStores \cup ChainStores \cup TouchingStores
                          \cup { ExampleStore, JoinedNameStore, RepeatStore }
    /\ maxIter \in MaxIterChoices
    /\ componentData = RenderedComponents
    /\ enabled = [kind |-> "boolean", value |-> TRUE]
    /\ now = 0
    /\ stack = <<>>
    /\ pending = {}
    /\ nextId = 1
    /\ owners = [n \in WrappedNames |-> [stamp |-> <<>>, execution |-> <<>>]]
    /\ called = [n \in WrappedNames |-> 0]
    /\ skipped = {}
    /\ lastCall = NoCall
    /\ previousDiagram = <<>>

\* profiler.getResults(saveToFile) is called
GetResults(saveToFile, sink) ==
    /\ saveToFile \/ sink = "ok"
    /\ \E array \in functionDataArray(functionData) :
         lastCall' = getResults(array, saveToFile, sink)
    /\ functionData' = storeAfterResults(functionData)
    /\ previousDiagram' = <<>>
    /\ UNCHANGED <<componentData, enabled, now, stack, pending, nextId, owners,
                   called, skipped, maxIter>>

\* profiler.log() is called
Log ==
    /\ \E array \in functionDataArray(functionData) :
         lastCall' = log(array)
    /\ functionData' = storeAfterResults(functionData)
    /\ previousDiagram' = <<>>
    /\ UNCHANGED <<componentData, enabled, now, stack, pending, nextId, owners,
                   called, skipped, maxIter>>

\* profiler.generateSequenceDiagram(maxIter, saveToFile) is called
GenerateSequenceDiagram(saveToFile, sink) ==
    /\ saveToFile \/ sink = "ok"
    /\ lastCall' = generateSequenceDiagram(functionData, maxIter, saveToFile, sink)
    /\ previousDiagram' = IF lastCall.op = "generateSequenceDiagram"
                             /\ lastCall.outcome = "returned"
                          THEN lastCall.result ELSE <<>>
    /\ UNCHANGED <<recorderVars, maxIter>>

NextReader ==
    \/ \E s \in BOOLEAN, k \in SinkOutcomes : GetResults(s, k)
    \/ Log
    \/ \E s \in BOOLEAN, k \in SinkOutcomes : GenerateSequenceDiagram(s, k)

SpecReader == InitReader /\ [][NextReader]_vars

-----------------------------------------------------------------------------
(* getResults and log on stores with longer duration lists *)

\* the samples: two small durations and the largest even number below
\* 2^Precision (adding it three times rounds)
SampleValues == { 1, 2, 2^Precision - 2 }

SampleLists == UNION { [1..n -> SampleValues] : n \in 0..MaxSamples }

\* an entry of functionData with the given duration lists: a list is empty
\* when every call so far had a zero duration of that type or, for
\* executionDuration, has not settled; one timestamp per recorded call
entryWith(functionName, threadBlocking, execution) ==
    [name |-> functionName,
     isPromise |-> threadBlocking = <<>>,
     executionDuration |-> execution,
     invocationTimestamps |->
         [k \in 1..(IF Len(threadBlocking) > Len(execution)
                    THEN Len(threadBlocking) ELSE Len(execution)) |-> k],
     threadBlockingDuration |-> threadBlocking]

\* one function, any two duration lists of which one at least is not empty
SampleStores ==
    { <<entryWith(<<"X">>, lists[1], lists[2])>> :
        lists \in { l \in SampleLists \X SampleLists : l[1] # <<>> \/ l[2] # <<>> } }

\* the lengths of the long lists: the first length at which the p99 index
\* is not the last one is 101
LongLengths == { 100, 101, 200 }

\* n durations, 1..n in order
LongSamples(n) == [k \in 1..n |-> k]

\* one function called many times
LongStores ==
    { <<entryWith(<<"X">>, LongSamples(n), LongSamples(n))>> : n \in LongLengths }

\* the execution durations of a function of the stores of several functions;
\* none while its one call is in flight
ShortLists == { <<>>, <<1>>, <<2>>, <<1, 2>> }

\* the orders in which up to MaxFunctions functions are first recorded
NameOrders ==
    { ns \in UNION { [1..n -> StoreNames] : n \in 1..MaxFunctions } :
        \A i, j \in 1..Len(ns) : i # j => ns[i] # ns[j] }

\* several functions, each with one thread blocking duration
SeveralStores ==
    UNION { { [k \in 1..Len(ns) |-> entryWith(ns[k], <<1>>, ex[k])]
              : ex \in [1..Len(ns) -> ShortLists] }
            : ns \in NameOrders }

StatsStores == SampleStores \cup LongStores \cup SeveralStores

InitStats ==
    /\ functionData \in StatsStores
    /\ maxIter = DefaultMaxIterations
    /\ componentData = <<>>
    /\ enabled = [kind |-> "boolean", value |-> TRUE]
    /\ now = 0
    /\ stack = <<>>
    /\ pending = {}
    /\ nextId = 1
    /\ owners = [n \in WrappedNames |-> [stamp |-> <<>>, execution |-> <<>>]]
    /\ called = [n \in WrappedNames |-> 0]
    /\ skipped = {}
    /\ lastCall = NoCall
    /\ previousDiagram = <<>>

NextStats ==
    \/ \E s \in BOOLEAN, k \in SinkOutcomes : GetResults(s, k)
    \/ Log

SpecStats == InitStats /\ [][NextStats]_vars

-----------------------------------------------------------------------------
(* Properties *)

\* the last reader call was generateSequenceDiagram and it returned
DiagramReturned ==
    lastCall.op = "generateSequenceDiagram" /\ lastCall.outcome = "returned"

\* the sorted events generateSequenceDiagram walks on the present store
SortedCalls == sortByTimestamp(extractCalls(functionData))

\* the sorted events are six calls named X, Y, X, Y, X, Y, each starting within
\* the execution time of the one before
SixCallChain ==
    /\ Len(SortedCalls) = 6
    /\ \A k \in 1..6 :
         SortedCalls[k].functionName = IF k % 2 = 1 THEN <<"X">> ELSE <<"Y">>
    /\ \A k \in 1..5 :
         SortedCalls[k + 1].timestamp
           < SortedCalls[k].timestamp + SortedCalls[k].duration

\* C1: on a six-call chain X, Y, X, Y, X, Y, each call nested in the one before,
\* generateSequenceDiagram (with the default maxIterations) ends its edges with
\* the "Circular pattern detected" note and stops before it has processed all
\* six calls.
C1_ChainIsTruncated ==
    (DiagramReturned /\ maxIter = DefaultMaxIterations /\ SixCallChain)
        => /\ lastCall.run.steps # <<>>
           /\ Last(lastCall.run.steps).note
           /\ lastCall.run.iterations < 6

\* C2: for every function and every index i, invocationTimestamps[i] and
\* executionDuration[i] were recorded by the same call.
C2_PairedByCall ==
    \A n \in WrappedNames :
        \A i \in 1..Min(Len(owners[n].stamp), Len(owners[n].execution)) :
            owners[n].stamp[i] = owners[n].execution[i]

\* C3: in every state between two steps of the recorder, each function's
\* invocationTimestamps and executionDuration have the same length.
C3_EqualLengths ==
    \A k \in 1..Len(functionData) :
        Len(functionData[k].invocationTimestamps)
            = Len(functionData[k].executionDuration)

\* the Invocation Count that log shows for a function (0 when it has no row)
InvocationCount(n) ==
    LET table == log(CHOOSE array \in functionDataArray(functionData) : TRUE).result
        rows == { k \in 1..Len(table) : table[k].index = FullName(n) }
    IN  IF rows = {} THEN 0 ELSE table[CHOOSE k \in rows : TRUE].invocationCount

\* C4: once every started call has completed, the invocation count reported
\* for a function is the number of times it was called (stated for the runs in
\* which no call went unrecorded: profiling enabled at every recordTiming call,
\* no measured duration of 0, no wrapped function threw).
C4_CountIsCalls ==
    (stack = <<>> /\ pending = {} /\ skipped = {})
        => \A n \in WrappedNames : InvocationCount(n) = called[n]

\* the steps of the last diagram that drew a Call edge
CallEdges ==
    { k \in 1..Len(lastCall.run.steps) : lastCall.run.steps[k].edge = "call" }

\* the steps of the last diagram that drew an edge line, Call or Return
EdgeLines ==
    { k \in 1..Len(lastCall.run.steps) : lastCall.run.steps[k].edge # None }

WindowsOverlap(a, b) ==
    /\ a.timestamp < b.timestamp + b.duration
    /\ b.timestamp < a.timestamp + a.duration

\* no two events of the store have overlapping windows
NoWindowsOverlap ==
    \A j, k \in 1..Len(SortedCalls) :
        j # k => ~WindowsOverlap(SortedCalls[j], SortedCalls[k])

\* no event of the store starts within the window of another event; an event
\* without a recorded execution duration has duration 0 and so an empty window,
\* and it may still start within the window of another one
NoStartWithinAnother ==
    LET calls == SortedCalls
    IN  \A j, k \in 1..Len(calls) :
            j # k => ~(/\ calls[k].timestamp >= calls[j].timestamp
                       /\ calls[k].timestamp < calls[j].timestamp + calls[j].duration)

\* C6 as stated: if no two windows [timestamp, timestamp + duration) of the
\* store overlap, the returned diagram has no Call edge.
C6_NoOverlapNoCall ==
    (DiagramReturned /\ NoWindowsOverlap) => CallEdges = {}

\* C6: if no event of the store starts within the window
\* [timestamp, timestamp + duration) of another event (events of the same
\* function and events with no recorded duration included), the returned
\* diagram has no Call edge.
C6_NoStartWithinNoCall ==
    (DiagramReturned /\ NoStartWithinAnother) => CallEdges = {}

\* a diagram over two events or more, one starting as the other ends, in which
\* the loop looked at two events
C6_Witness ==
    /\ DiagramReturned
    /\ NoStartWithinAnother
    /\ Len(SortedCalls) >= 2
    /\ \E k \in 1..(Len(SortedCalls) - 1) :
         SortedCalls[k + 1].timestamp
           = SortedCalls[k].timestamp + SortedCalls[k].duration
    /\ Len(lastCall.run.steps) >= 2

\* C7: generateSequenceDiagram processes at most maxIterations events and
\* emits at most maxIterations edge lines, however many events the store has.
C7_AtMostMaxIterations ==
    DiagramReturned =>
        /\ lastCall.run.iterations <= maxIter
        /\ Len(lastCall.run.steps) <= maxIter
        /\ Cardinality(EdgeLines) <= maxIter

\* maxIterations is 2, the store has more than 2 events, and 2 were processed
C7_Witness ==
    /\ DiagramReturned
    /\ maxIter = 2
    /\ Len(SortedCalls) > 2
    /\ lastCall.run.iterations = 2
    /\ EdgeLines # {}

\* C8: with an empty functionData, generateSequenceDiagram returns exactly the
\* fixed "no data" diagram, with no participant line and no edge, and
\* getResults returns an empty list.
C8_EmptyStore ==
    functionData = <<>> =>
        /\ DiagramReturned =>
             /\ lastCall.result
                  = <<"~~~mermaid", "sequenceDiagram",
                      "  Note over No Data: No function calls recorded", "~~~">>
             /\ lastCall.run.participants = <<>>
             /\ lastCall.run.steps = <<>>
        /\ (lastCall.op = "getResults" /\ lastCall.outcome = "returned") =>
             lastCall.result = <<>>

\* generateSequenceDiagram returned on the empty store
C8_Witness == functionData = <<>> /\ DiagramReturned /\ lastCall.result # <<>>

\* what profiler.enabled evaluates to now
EnabledNow ==
    \/ enabled.kind = "boolean" /\ enabled.value
    \/ enabled.kind = "function" /\ enabled.returns

\* C9: while profiler.enabled evaluates to false (the boolean false or a
\* predicate that returns false), no step of a wrapped function, a decorated
\* method or an onRender callback changes functionData or componentData.
C9_DisabledIsNoOp ==
    [][~EnabledNow => /\ functionData' = functionData
                      /\ componentData' = componentData]_vars

\* profiler.enabled is a predicate that returns false, a call was made and its
\* recordTiming returned at the enabled check, and the store is empty
C9_Witness ==
    /\ enabled.kind = "function"
    /\ ~enabled.returns
    /\ "disabled" \in skipped
    /\ \E n \in WrappedNames : called[n] > 0
    /\ stack = <<>>
    /\ functionData = <<>>

\* C10: when getResults or generateSequenceDiagram is called with saveToFile
\* and the export sink fails, the failure is caught: the call returns its
\* normal result and no rejection is left without a handler.
C10_SinkFailureCaught ==
    (lastCall.op \in {"getResults", "generateSequenceDiagram"} /\ lastCall.sinkFailed)
        => /\ lastCall.outcome = "returned"
           /\ ~lastCall.unhandledRejection

\* the last reader call was getResults (not log) and it returned
ResultsReturned ==
    lastCall.op = "getResults" /\ lastCall.outcome = "returned"

\* the name under which a record of getResults stands for its function
RecordName(r) ==
    IF r.className # "" THEN r.className \o "." \o r.functionName
    ELSE r.functionName

\* the records getResults returned for the function named name
RecordsOf(name) ==
    { k \in 1..Len(lastCall.result) : RecordName(lastCall.result[k]) = FullName(name) }

\* the fields reported for a list of durations
StatFields(stats) == { stats.avg, stats.min, stats.max, stats.p0, stats.p99 }

\* C11: for a function whose threadBlockingDuration or executionDuration list
\* is empty, getResults raises no error, and each of avg, min, max, p0 and p99
\* of that list is the not-a-number sentinel.
C11_EmptyListAllNaN ==
    /\ (lastCall.op = "getResults" /\ ~lastCall.saveToFile)
           => lastCall.outcome = "returned"
    /\ ResultsReturned =>
         \A e \in 1..Len(functionData) : \A k \in RecordsOf(functionData[e].name) :
            /\ functionData[e].threadBlockingDuration = <<>>
                 => \A f \in StatFields(lastCall.result[k].threadBlockingDuration) :
                        f.is = "NaN"
            /\ functionData[e].executionDuration = <<>>
                 => \A f \in StatFields(lastCall.result[k].executionDuration) :
                        f.is = "NaN"

\* x <= y for two reported numbers
AtMost(x, y) ==
    /\ x.is = "number"
    /\ y.is = "number"
    /\ x.num * 2^(y.shift) <= y.num * 2^(x.shift)

\* min <= avg <= max in the fields reported for the list d, and for a list
\* of one sample p99, p0, min and max are that sample
OrderedStats(stats, d) ==
    /\ AtMost(stats.min, stats.avg)
    /\ AtMost(stats.avg, stats.max)
    /\ Len(d) = 1 =>
         /\ stats.p99 = Number(d[1])
         /\ stats.p0 = Number(d[1])
         /\ stats.min = Number(d[1])
         /\ stats.max = Number(d[1])

\* C12: for every function with a non-empty duration list, getResults reports
\* min <= avg <= max over that list, and for a list of length 1 it reports
\* p99 = p0 = min = max = the single sample.
C12_MinAvgMax ==
    ResultsReturned =>
        \A e \in 1..Len(functionData) : \A k \in RecordsOf(functionData[e].name) :
            /\ functionData[e].threadBlockingDuration # <<>>
                 => OrderedStats(lastCall.result[k].threadBlockingDuration,
                                 functionData[e].threadBlockingDuration)
            /\ functionData[e].executionDuration # <<>>
                 => OrderedStats(lastCall.result[k].executionDuration,
                                 functionData[e].executionDuration)

\* the fields reported for the list d hold as p99 the sample at index
\* floor(n * 0.99), an index of the list
P99AtFloor(stats, d) ==
    LET n == Len(d)
        indices == { i \in 0..(n - 1) : 100 * i <= 99 * n /\ 99 * n < 100 * (i + 1) }
    IN  /\ indices # {}
        /\ \A i \in indices : stats.p99 = Number(d[i + 1])

\* C13: for every non-empty duration list of length n, the reported p99 is the
\* sample at index floor(n * 0.99), and that index is within [0, n - 1]; for
\* the 100 samples 1..100 in order, p99 is the 100th sample (index 99).
C13_P99AtFloor ==
    ResultsReturned =>
        \A e \in 1..Len(functionData) : \A k \in RecordsOf(functionData[e].name) :
            /\ functionData[e].threadBlockingDuration # <<>>
                 => P99AtFloor(lastCall.result[k].threadBlockingDuration,
                               functionData[e].threadBlockingDuration)
            /\ functionData[e].executionDuration # <<>>
                 => P99AtFloor(lastCall.result[k].executionDuration,
                               functionData[e].executionDuration)
            /\ functionData[e].executionDuration = LongSamples(100)
                 => lastCall.result[k].executionDuration.p99
                      = Number(functionData[e].executionDuration[100])

\* getResults has returned the p99 of a list of 101 samples, which is the
\* sample at index 99 and not the last one
C13_Witness ==
    /\ ResultsReturned
    /\ Len(lastCall.result) = 1
    /\ functionData[1].executionDuration = LongSamples(101)
    /\ lastCall.result[1].executionDuration.p99 = Number(100)

\* C14: getResults returns exactly one record per key of functionData, and the
\* records are ordered by non-increasing average execution duration, also
\* when functions of the store have calls in flight (no record stands before
\* a record of a greater average).
C14_OnePerKeySorted ==
    ResultsReturned =>
        /\ Len(lastCall.result) = Len(functionData)
        /\ \A e \in 1..Len(functionData) :
             Cardinality(RecordsOf(functionData[e].name)) = 1
        /\ \A i, j \in 1..Len(lastCall.result) :
             i < j => ~lessThan(lastCall.result[i].executionDuration.avg,
                                lastCall.result[j].executionDuration.avg)

\* the isPromise flag of the entry of the function n
IsPromiseOf(n) == functionData[IndexOf(functionData, n)].isPromise

\* every call of n made so far has returned a promise, which has not settled
OnlyPendingPromises(n) ==
    /\ called[n] > 0
    /\ Cardinality({ c \in pending : c.name = n }) = called[n]

\* the finally callback of a promise that a call of n returned runs
SettlesCallOf(n) == \E c \in pending : c.name = n /\ Settle(c)

\* C15: isPromise tells whether the function returns a promise. In every state
\* in which a function whose every call returned a promise has an entry in
\* functionData, its isPromise is true; and isPromise is false for a function
\* that returns no promise: the flag is true only from the moment a promise
\* the function returned has settled.
C15_IsPromiseTellsPromise ==
    /\ [](\A n \in WrappedNames :
            (n \in Keys(functionData) /\ OnlyPendingPromises(n)) => IsPromiseOf(n))
    /\ [][\A n \in WrappedNames :
            (n \in Keys(functionData') /\ IsPromiseOf(n)'
               /\ ~(n \in Keys(functionData) /\ IsPromiseOf(n)))
                => SettlesCallOf(n)]_vars

\* the participant of an event: the part of its name before the "."
ParticipantOf(call) == call.functionName[1]

\* the bare method name of an event: the part of its name after the "."
MethodOf(call) == call.functionName[Len(call.functionName)]

\* the lines of the step st of the returned run, its Return edge drawn with
\* the given arrow
StepLines(st, returnArrow) ==
    LET calls == lastCall.run.calls
        current == calls[st.i + 1]
    IN  (IF st.edge = "call"
         THEN <<"  " \o ParticipantOf(current) \o "->>" \o ParticipantOf(calls[st.i + 2])
                \o ": " \o MethodOf(calls[st.i + 2])>>
         ELSE IF st.edge = "return"
         THEN <<"  " \o ParticipantOf(current) \o returnArrow \o ParticipantOf(calls[st.i])
                \o ": return">>
         ELSE <<>>)
        \o (IF st.note
            THEN <<"  Note over " \o ParticipantOf(current)
                   \o ": Circular pattern detected - diagram truncated">>
            ELSE <<>>)

RECURSIVE EdgeText(_, _)
\* the lines of the steps, in emission order
EdgeText(steps, returnArrow) ==
    IF steps = <<>> THEN <<>>
    ELSE StepLines(steps[1], returnArrow) \o EdgeText(Tail(steps), returnArrow)

\* the returned text is the header, the participants, one line per edge in
\* emission order with the given arrow for a Return edge, and the closing
\* fence
TextDrawnWith(returnArrow) ==
    lastCall.result
      = <<Fence \o "mermaid", "sequenceDiagram">>
        \o [k \in 1..Len(lastCall.run.participants) |->
              "  participant " \o lastCall.run.participants[k]]
        \o EdgeText(lastCall.run.steps, returnArrow)
        \o <<Fence>>

\* C16 as stated: in the diagram text every Call edge is the line
\* "<src>->><dst>: <label>" and every Return edge the line
\* "<src>-->><dst>: return".
C16_ReturnArrowWithHead ==
    (DiagramReturned /\ ~lastCall.run.empty) => TextDrawnWith("-->>")

\* C16, amended: every Call edge is the line "<src>->><dst>: <label>" and
\* every Return edge the line "<src>--><dst>: return", the dashed arrow being
\* "-->" without a head.
C16_ReturnArrowNoHead ==
    (DiagramReturned /\ ~lastCall.run.empty) => TextDrawnWith("-->")

\* a diagram with a Call edge and a Return edge has been returned
C16_Witness ==
    /\ DiagramReturned
    /\ \E k \in 1..Len(lastCall.run.steps) : lastCall.run.steps[k].edge = "call"
    /\ \E k \in 1..Len(lastCall.run.steps) : lastCall.run.steps[k].edge = "return"

\* every duration of every list of the store is non-zero
NoZeroDuration ==
    \A e \in 1..Len(functionData) :
        /\ \A k \in 1..Len(functionData[e].executionDuration) :
             functionData[e].executionDuration[k] # 0
        /\ \A k \in 1..Len(functionData[e].threadBlockingDuration) :
             functionData[e].threadBlockingDuration[k] # 0

\* the innermost running call returns while the clock still shows, and after
\* both measurements still shows, the time at which the call started
ReturnsAtOnce ==
    /\ stack # <<>>
    /\ stack' = SubSeq(stack, 1, Len(stack) - 1)
    /\ now' = Last(stack).startTime

\* the promise of a call settles while the clock still shows the time at
\* which the call started
SettlesAtOnce ==
    \E c \in pending : pending' = pending \ {c} /\ now' = c.startTime

\* C17: no sequence of profiled calls appends a zero duration: every element
\* of every executionDuration and threadBlockingDuration list is non-zero, and
\* the measurements of a call whose durations are zero leave functionData
\* unchanged.
C17_NoZeroDuration ==
    /\ []NoZeroDuration
    /\ [][(ReturnsAtOnce \/ SettlesAtOnce) => functionData' = functionData]_vars

\* one call was made while the recorder was enabled, it has returned at the
\* time at which it started, and the store is still empty
C17_Witness ==
    /\ "zero" \in skipped
    /\ "disabled" \notin skipped
    /\ "threw" \notin skipped
    /\ stack = <<>>
    /\ pending = {}
    /\ \E n \in WrappedNames : called[n] = 1
    /\ functionData = <<>>

\* the durations recorded for the component id in the store cd (none when the
\* component has no entry)
DurationsOf(cd, id) ==
    IF \E k \in 1..Len(cd) : cd[k].id = id
    THEN cd[CHOOSE k \in 1..Len(cd) : cd[k].id = id].durations
    ELSE <<>>

\* the step is a use of profile that starts no wrapped call (every onRender
\* callback is such a step)
UsesProfileOutsideCall == nextId' # nextId /\ stack' = stack

\* C18: when the recorder is enabled, profile called as the onRender callback
\* of React (id, phase, actualDuration, ...) appends exactly actualDuration to
\* componentData[id], for each of the phases mount, update and nested-update,
\* and leaves functionData and the data of the other components unchanged.
C18_RenderAppends ==
    [][(EnabledNow /\ UsesProfileOutsideCall) =>
          \A id \in ComponentIds, ph \in Phases, d \in ActualDurations :
              Render(id, ph, d) =>
                  /\ DurationsOf(componentData', id)
                       = Append(DurationsOf(componentData, id), d)
                  /\ \A other \in ComponentIds \ {id} :
                       DurationsOf(componentData', other) = DurationsOf(componentData, other)
                  /\ functionData' = functionData]_vars

\* two renders of one component have been recorded, the second after the
\* first
C18_Witness ==
    \E id \in ComponentIds : Len(DurationsOf(componentData, id)) = 2

\* the step st of the returned run has a next event
HasNext(st) == st.i + 2 <= Len(lastCall.run.calls)

\* the nesting test between the event of the step st and the next event
StartsWithin(st) ==
    LET calls == lastCall.run.calls
    IN  calls[st.i + 2].timestamp < calls[st.i + 1].timestamp + calls[st.i + 1].duration

\* the lines of the Call edges of the returned run, in emission order
CallLines ==
    LET drawn == SelectSeq(lastCall.run.steps, LAMBDA st : st.edge = "call")
    IN  [k \in 1..Len(drawn) |-> drawn[k].lines[1]]

\* C19: at each processed step i that has a next event, a Call edge from the
\* participant of current to the participant of next, labelled with the bare
\* method name of next, is emitted if and only if next.timestamp <
\* current.timestamp + current.duration; for A(0,100), B(10,50), C(30,20),
\* D(60,15) the Call edges are exactly A->>B followed by B->>C.
C19_CallIffStartsWithin ==
    DiagramReturned =>
        /\ \A k \in 1..Len(lastCall.run.steps) :
             LET st == lastCall.run.steps[k]
                 calls == lastCall.run.calls
             IN  HasNext(st) =>
                   /\ st.edge = "call" <=> StartsWithin(st)
                   /\ st.edge = "call" =>
                        /\ st.source = ParticipantOf(calls[st.i + 1])
                        /\ st.target = ParticipantOf(calls[st.i + 2])
                        /\ st.label = MethodOf(calls[st.i + 2])
                        /\ st.lines # <<>>
                        /\ st.lines[1] = "  " \o st.source \o "->>" \o st.target
                                           \o ": " \o st.label
        /\ (functionData = ExampleStore /\ maxIter = DefaultMaxIterations)
             => CallLines = <<"  A->>B: B", "  B->>C: C">>

\* the diagram of the four calls A, B, C, D has been returned, with two Call
\* edges
C19_Witness ==
    /\ DiagramReturned
    /\ functionData = ExampleStore
    /\ maxIter = DefaultMaxIterations
    /\ Len(CallLines) = 2

\* the event of the step st starts within the closed window of the event
\* before it
WithinPrevious(st) ==
    LET calls == lastCall.run.calls
        prev == calls[st.i]
        current == calls[st.i + 1]
    IN  /\ prev.timestamp <= current.timestamp
        /\ current.timestamp <= prev.timestamp + prev.duration

\* the step st comes where a Return edge is due: the nesting test between its
\* event and the next one fails, and its event is not the first and starts
\* within the window of the event before it
ReturnDue(st) ==
    /\ HasNext(st)
    /\ ~StartsWithin(st)
    /\ st.i > 0
    /\ WithinPrevious(st)

\* C20: at a processed step i where the nesting test between current and next
\* fails, a Return edge from the participant of current to the participant of
\* events[i-1], labelled "return", is emitted if and only if i > 0 and
\* events[i-1].timestamp <= current.timestamp <= events[i-1].timestamp +
\* events[i-1].duration; a Return edge is emitted in no other situation, and
\* never in the same step as a Call edge.
C20_ReturnIffWithinPrevious ==
    DiagramReturned =>
        \A k \in 1..Len(lastCall.run.steps) :
            LET st == lastCall.run.steps[k]
                calls == lastCall.run.calls
            IN  /\ st.edge = "return" <=> ReturnDue(st)
                /\ st.edge = "return" =>
                     /\ st.source = ParticipantOf(calls[st.i + 1])
                     /\ st.target = ParticipantOf(calls[st.i])
                     /\ st.label = "return"
                     /\ st.lines # <<>>
                     /\ st.lines[1] = "  " \o st.source \o "-->" \o st.target \o ": return"
                \* one edge line at most in a step, before the note if there is one
                /\ Len(st.lines) <= (IF st.note THEN 2 ELSE 1)

\* a diagram has been returned with a Return edge of an event that starts as
\* the event before it ends, and with a step that draws no edge although its
\* nesting test fails
C20_Witness ==
    /\ DiagramReturned
    /\ functionData \in TouchingStores
    /\ \E k \in 1..Len(lastCall.run.steps) :
         LET st == lastCall.run.steps[k]
             calls == lastCall.run.calls
         IN  /\ st.edge = "return"
             /\ calls[st.i + 1].timestamp = calls[st.i].timestamp + calls[st.i].duration
    /\ \E k \in 1..Len(lastCall.run.steps) :
         /\ HasNext(lastCall.run.steps[k])
         /\ ~StartsWithin(lastCall.run.steps[k])
         /\ lastCall.run.steps[k].edge = None

\* the position in the sorted events of the first event of the participant p
FirstSeen(p) ==
    CHOOSE k \in 1..Len(lastCall.run.calls) :
        /\ ParticipantOf(lastCall.run.calls[k]) = p
        /\ \A j \in 1..(k - 1) : ParticipantOf(lastCall.run.calls[j]) # p

\* the lines of the returned text that declare a participant: the lines after
\* the two header lines, one per participant of the run
ParticipantLines ==
    SubSeq(lastCall.result, 3, 2 + Len(lastCall.run.participants))

RECURSIVE CountLines(_)
\* the number of edge and note lines of the steps
CountLines(steps) ==
    IF steps = <<>> THEN 0 ELSE Len(steps[1].lines) + CountLines(Tail(steps))

\* C21: the participant lines of a non-empty diagram are exactly the distinct
\* participants of all sorted events, each declared once, in first-seen order
\* over the timestamp-sorted events, and all of them precede the first edge;
\* every participant named in an edge or a note is declared.
C21_ParticipantsFirstSeen ==
    (DiagramReturned /\ ~lastCall.run.empty) =>
        LET declared == lastCall.run.participants
            calls == lastCall.run.calls
        IN  /\ { declared[k] : k \in 1..Len(declared) }
                 = { ParticipantOf(calls[k]) : k \in 1..Len(calls) }
            /\ \A i, j \in 1..Len(declared) :
                 i < j => FirstSeen(declared[i]) < FirstSeen(declared[j])
            \* the text: header, declarations, then the edges and the fence
            /\ Len(lastCall.result) = 2 + Len(declared) + CountLines(lastCall.run.steps) + 1
            /\ ParticipantLines = [k \in 1..Len(declared) |-> "  participant " \o declared[k]]
            /\ \A k \in 1..Len(lastCall.run.steps) :
                 LET st == lastCall.run.steps[k]
                 IN  /\ \E d \in 1..Len(declared) : declared[d] = st.source
                     /\ st.edge # None => \E d \in 1..Len(declared) : declared[d] = st.target

\* a diagram has been returned whose participants are declared in an order
\* that is not the alphabetical one, and that has an edge
C21_Witness ==
    /\ DiagramReturned
    /\ lastCall.run.participants = <<"X", "A">>
    /\ EdgeLines # {}

\* the step st has the last event of the sorted list as its current event
AtLastEvent(st) == st.i = Len(lastCall.run.calls) - 1

\* some step of the returned run emitted the truncation note
NoteEmitted == \E k \in 1..Len(lastCall.run.steps) : lastCall.run.steps[k].note

\* C22 as stated: only events[i] with i < min(length - 1, maxIterations) are
\* treated as current: the last event of the sorted list is never appended to
\* the running trace and never triggers a truncation note.
C22_LastEventNeverCurrent ==
    DiagramReturned =>
        \A k \in 1..Len(lastCall.run.steps) :
            /\ lastCall.run.steps[k].i < Min(Len(lastCall.run.calls) - 1, maxIter)
            /\ ~AtLastEvent(lastCall.run.steps[k])

\* C22, amended: the events treated as current are events[i] for i = 0, 1, ...
\* below min(length, maxIterations), up to the step that emits a truncation
\* note if there is one. The last event of the sorted list is among them when
\* maxIterations allows: it is appended to the running trace, it draws no edge,
\* and it can trigger the truncation note.
C22_LastEventIsCurrent ==
    DiagramReturned =>
        LET steps == lastCall.run.steps
            calls == lastCall.run.calls
        IN  /\ \A k \in 1..Len(steps) : steps[k].i = k - 1
            /\ Len(steps) <= Min(Len(calls), maxIter)
            /\ ~NoteEmitted => Len(steps) = Min(Len(calls), maxIter)
            /\ \A k \in 1..Len(steps) :
                 AtLastEvent(steps[k]) =>
                     /\ steps[k].edge = None
                     /\ steps[k].trace
                          = Append(steps[k].traceBefore, FullName(calls[k].functionName))

\* the last event of the sorted list was the current event of a step, and
\* that step emitted the truncation note
C22_Witness ==
    /\ DiagramReturned
    /\ \E k \in 1..Len(lastCall.run.steps) :
         /\ AtLastEvent(lastCall.run.steps[k])
         /\ lastCall.run.steps[k].note

\* C23: whenever the nesting test between current and next fails at a
\* processed step, the running trace is empty at the start of the next step,
\* whatever the length of the trace at that moment.
C23_TraceEmptyAfterBreak ==
    DiagramReturned =>
        \A k \in 1..(Len(lastCall.run.steps) - 1) :
            (HasNext(lastCall.run.steps[k]) /\ ~StartsWithin(lastCall.run.steps[k]))
                => lastCall.run.steps[k + 1].traceBefore = <<>>

\* C24: at a processed step the truncation note "Note over <current
\* participant>: Circular pattern detected - diagram truncated" is emitted if
\* and only if the running trace, after current.functionName is appended, has
\* length greater than 2 and its joined signature equals a signature recorded
\* at an earlier step; otherwise, when the length exceeds 2, the signature is
\* added to the history.
C24_NoteIffLongTraceRepeats ==
    DiagramReturned =>
        \A k \in 1..Len(lastCall.run.steps) :
            LET st == lastCall.run.steps[k]
                signature == JoinWith(st.trace, "-")
                seen == \E h \in 1..Len(st.historyBefore) : st.historyBefore[h] = signature
                noteText == "  Note over " \o st.source
                            \o ": Circular pattern detected - diagram truncated"
                historyAfter == IF k < Len(lastCall.run.steps)
                                THEN lastCall.run.steps[k + 1].historyBefore
                                ELSE st.historyBefore
            IN  /\ st.note <=> (Len(st.trace) > 2 /\ seen)
                /\ st.note <=> (st.lines # <<>> /\ Last(st.lines) = noteText)
                /\ (~st.note /\ Len(st.trace) > 2 /\ k < Len(lastCall.run.steps))
                       => historyAfter = Append(st.historyBefore, signature)

\* the truncation notes that can stand in the returned text: one per declared
\* participant
NoteTexts ==
    { "  Note over " \o lastCall.run.participants[k]
        \o ": Circular pattern detected - diagram truncated"
      : k \in 1..Len(lastCall.run.participants) }

\* the positions of the truncation notes in the returned text
NotePositions ==
    { k \in 1..Len(lastCall.result) : lastCall.result[k] \in NoteTexts }

\* C25: a diagram contains at most one truncation note, and once it is emitted
\* no further edge or note is emitted: the note is the last line before the
\* closing marker, after all participant lines and all edges.
C25_OneNoteLast ==
    (DiagramReturned /\ ~lastCall.run.empty) =>
        LET text == lastCall.result
            steps == lastCall.run.steps
        IN  /\ Cardinality(NotePositions) <= 1
            /\ text[Len(text)] = Fence
            /\ \A k \in NotePositions :
                 /\ k = Len(text) - 1
                 /\ k > 2 + Len(lastCall.run.participants)
            /\ NoteEmitted <=> NotePositions # {}
            /\ \A k \in 1..Len(steps) : steps[k].note => k = Len(steps)
            /\ Len(text) = 2 + Len(lastCall.run.participants) + Cardinality(EdgeLines)
                             + Cardinality(NotePositions) + 1

\* a diagram whose note was emitted with events still to come, after at least
\* one edge
C25_Witness ==
    /\ DiagramReturned
    /\ NoteEmitted
    /\ Len(lastCall.run.steps) < Len(lastCall.run.calls)
    /\ Len(lastCall.run.steps) < maxIter
    /\ EdgeLines # {}

\* the number of invocation timestamps of the entry e that have no execution
\* duration at the same index
MissingDurations(e) ==
    IF Len(e.invocationTimestamps) > Len(e.executionDuration)
    THEN Len(e.invocationTimestamps) - Len(e.executionDuration)
    ELSE 0

RECURSIVE CountStamps(_)
\* the number of invocation timestamps of a store
CountStamps(fd) ==
    IF fd = <<>> THEN 0 ELSE Len(fd[1].invocationTimestamps) + CountStamps(Tail(fd))

\* the step st has an event of duration 0 as its current event
ZeroDurationCurrent(st) == lastCall.run.calls[st.i + 1].duration = 0

\* C26: an invocation timestamp that has no executionDuration at the same
\* index is flattened into an event of duration 0 without raising an error,
\* and such an event is never the source of a Call edge.
C26_MissingDurationIsZero ==
    (lastCall.op = "generateSequenceDiagram" /\ ~lastCall.saveToFile) =>
        /\ lastCall.outcome = "returned"
        /\ ~lastCall.run.empty =>
             LET calls == lastCall.run.calls
                 steps == lastCall.run.steps
             IN  /\ Len(calls) = CountStamps(functionData)
                 /\ \A n \in 1..Len(functionData) :
                      LET e == functionData[n] IN
                      /\ \A i \in 1..Len(e.invocationTimestamps) :
                           i > Len(e.executionDuration) =>
                               \E k \in 1..Len(calls) :
                                   calls[k] = [timestamp |-> e.invocationTimestamps[i],
                                               functionName |-> e.name,
                                               duration |-> 0,
                                               isPromise |-> e.isPromise]
                      /\ Cardinality({ k \in 1..Len(calls) :
                                         /\ calls[k].functionName = e.name
                                         /\ calls[k].duration = 0 })
                           = MissingDurations(e)
                 /\ \A k \in 1..Len(steps) :
                      ZeroDurationCurrent(steps[k]) => steps[k].edge # "call"

\* a call without a recorded duration is the current event of a step, and the
\* next event starts at the same time
C26_Witness ==
    /\ DiagramReturned
    /\ \E n \in 1..Len(functionData) : MissingDurations(functionData[n]) > 0
    /\ \E k \in 1..Len(lastCall.run.steps) :
         LET st == lastCall.run.steps[k] IN
         /\ ZeroDurationCurrent(st)
         /\ HasNext(st)
         /\ lastCall.run.calls[st.i + 2].timestamp = lastCall.run.calls[st.i + 1].timestamp
         /\ st.edge # "call"

RECURSIVE Flattened(_)
\* the flattened events of the store fd, in flattening order: the functions in
\* the insertion order of functionData, the samples of a function by index
Flattened(fd) ==
    IF fd = <<>> THEN <<>>
    ELSE LET e == fd[1]
         IN  [i \in 1..Len(e.invocationTimestamps) |->
                [timestamp |-> e.invocationTimestamps[i],
                 functionName |-> e.name,
                 duration |-> IF i <= Len(e.executionDuration)
                              THEN e.executionDuration[i] ELSE 0,
                 isPromise |-> e.isPromise]]
             \o Flattened(Tail(fd))

\* C27: the event list walked by generateSequenceDiagram is a permutation of
\* the flattened events in non-decreasing timestamp order, and events with
\* equal timestamps keep their flattening order (functionData insertion order
\* of the function, then sample index).
C27_StableSortedPermutation ==
    (DiagramReturned /\ ~lastCall.run.empty) =>
        LET calls == lastCall.run.calls
            flat == Flattened(functionData)
        IN  /\ Len(calls) = Len(flat)
            /\ \A k \in 1..(Len(calls) - 1) : calls[k].timestamp <= calls[k + 1].timestamp
            /\ \A a \in 1..Len(flat) :
                 LET earlier == { b \in 1..Len(flat) : flat[b].timestamp < flat[a].timestamp }
                     tiedBefore == { b \in 1..(a - 1) : flat[b].timestamp = flat[a].timestamp }
                 IN  calls[1 + Cardinality(earlier) + Cardinality(tiedBefore)] = flat[a]

\* two events of different functions with the same timestamp are walked
C27_Witness ==
    /\ DiagramReturned
    /\ \E k \in 1..(Len(lastCall.run.calls) - 1) :
         /\ lastCall.run.calls[k].timestamp = lastCall.run.calls[k + 1].timestamp
         /\ lastCall.run.calls[k].functionName # lastCall.run.calls[k + 1].functionName

\* C28: getResults, log and generateSequenceDiagram (with saveToFile = false)
\* never modify the store: functionData (every function's timestamps, both
\* duration lists and isPromise) and componentData are the same after the
\* call as before.
C28_ReadersLeaveStore ==
    [][ lastCall'.op \in {"getResults", "log", "generateSequenceDiagram"}
          => /\ functionData' = functionData
             /\ componentData' = componentData ]_vars

\* getResults has returned on a store that holds component data and a
\* function whose execution durations are not in ascending order
C28_Witness ==
    /\ lastCall.op = "getResults"
    /\ lastCall.outcome = "returned"
    /\ componentData # <<>>
    /\ \E n \in 1..Len(functionData) :
         \E i \in 1..(Len(functionData[n].executionDuration) - 1) :
             functionData[n].executionDuration[i] > functionData[n].executionDuration[i + 1]

\* the kinds of result of a wrapped function that returns (does not throw)
ReturnedKinds == ResultKinds \ {"throws"}

\* C29: for every kind of value returned by the wrapped function (plain value,
\* promise, or thenable object that has then but no finally), the function
\* returned by profile(fn) returns exactly fn's return value to the caller and
\* raises no error that fn itself did not raise, whether profiling is enabled
\* or not.
C29_WrapperReturnsResult ==
    (stack # <<>> /\ ~isDecorated(Last(stack).name)) =>
        \A kind \in ReturnedKinds, adv \in {0, 1} :
            profilerFunction(RecorderState, Last(stack), kind, now, now + adv, enabled).outcome
                = "returned"

\* C30: the decorator form and the function-wrapper form of profile classify
\* the same return value identically as immediate or deferred, so the same
\* call outcome produces the same sequence of recordTiming store updates
\* (apart from the function name) in both.
C30_SameClassification ==
    stack # <<>> =>
        \A kind \in ReturnedKinds, adv \in {0, 1} :
            LET c == Last(stack)
                d == profilerDecorator(RecorderState, c, kind, now, now + adv, enabled)
                f == profilerFunction(RecorderState, c, kind, now, now + adv, enabled)
            IN  /\ d.deferred = f.deferred
                /\ d.outcome = f.outcome
                /\ d.state = f.state

\* C31: every Return edge emitted at step i (from events[i]'s participant to
\* events[i-1]'s participant) is immediately preceded by the Call edge emitted
\* at step i-1 from events[i-1]'s participant to events[i]'s participant: no
\* return is drawn for a call that was not drawn.
C31_ReturnFollowsItsCall ==
    DiagramReturned =>
        \A k \in 1..Len(lastCall.run.steps) :
            lastCall.run.steps[k].edge = "return" =>
                /\ k > 1
                /\ lastCall.run.steps[k - 1].edge = "call"
                /\ lastCall.run.steps[k - 1].source = lastCall.run.steps[k].target
                /\ lastCall.run.steps[k - 1].target = lastCall.run.steps[k].source

\* C32: when every profiled call is synchronous (no deferred completion), has
\* a non-zero execution duration and start times of calls to the same function
\* are pairwise distinct, then after any sequence of calls, including nested
\* and recursive ones, every function's invocationTimestamps and
\* executionDuration have equal length and index i of both refers to the same
\* call.
C32_SyncCallsPaired ==
    /\ \A k \in 1..Len(functionData) :
         /\ Len(functionData[k].invocationTimestamps)
              = Len(functionData[k].executionDuration)
         /\ Len(owners[functionData[k].name].stamp)
              = Len(functionData[k].invocationTimestamps)
         /\ Len(owners[functionData[k].name].execution)
              = Len(functionData[k].executionDuration)
    /\ \A n \in WrappedNames : owners[n].stamp = owners[n].execution

\* a function has called itself and both calls have returned: the inner call,
\* which started later, was recorded first
C32_Witness ==
    /\ stack = <<>>
    /\ \E k \in 1..Len(functionData) :
         /\ Len(functionData[k].invocationTimestamps) = 2
         /\ functionData[k].invocationTimestamps[1] > functionData[k].invocationTimestamps[2]
         /\ Len(functionData[k].executionDuration) = 2
         /\ owners[functionData[k].name].execution[1] > owners[functionData[k].name].execution[2]

=============================================================================
